---- MODULE Spec2Model ----
(***************************************************************************)
(* Construction and wiring of one pyramidal cell (hnn_core/pyramidal.py).  *)
(*                                                                         *)
(* The state is the cell object: its dendrite dictionary, the section      *)
(* tree, the geometry of every section, the synapse registry and the       *)
(* connection lists.  The constructor L2Pyr.__init__ / L5Pyr.__init__ is   *)
(* followed call by call (pc is the position in it); once the cell is      *)
(* built the wiring methods may be called on it.                           *)
(*                                                                         *)
(* Lengths and diameters are fixed-point numbers in hundredths of a        *)
(* micron (59.5 is 5950); axial projection factors are in thousandths.     *)
(***************************************************************************)
EXTENDS Integers, Sequences, FiniteSets, TLC

VARIABLES
    name,            \* soma_props['name']: "L2Pyr" or "L5Pyr"
    gid,             \* the cell's gid
    p_all,           \* resolved parameters (name -> value)
    pc,              \* position in __init__, "built" once it returned
    celltype,        \* self.celltype
    dends,           \* self.dends: the keys that hold a section
    list_dend,       \* self.list_dend: sequence of dendrite keys
    sect_loc,        \* self.sect_loc: feed location -> list of location names
    parent,          \* section tree: dendrite key -> [sec, x] or NoParent
    geo,             \* section -> [L, diam, Ra, cm, nseg]
    mechs,           \* section -> set of inserted mechanisms
    gbar_ar,         \* dendrite -> per segment, the h-current density set on it
    yscale,          \* self.yscale: section name -> axial projection factor
    synapses,        \* self.synapses: key -> [sec, x, e, tau1, tau2]
    nc,              \* connection lists: list name -> sequence of connections
    diag,            \* number of diagnostics printed
    err,             \* the exception the last wiring call raised, "" if none
    calls,           \* number of wiring calls made on the built cell
    last             \* the last wiring call: its arguments and the lists before it

vars == <<name, gid, p_all, pc, celltype, dends, list_dend, sect_loc, parent,
          geo, mechs, gbar_ar, yscale, synapses, nc, diag, err, calls, last>>

-----------------------------------------------------------------------------
(* Bounds of the model *)

\* each pyramidal population holds MaxGid + 1 cells
MaxGid == 1
\* number of wiring calls made on one built cell
MaxCalls == 2
\* slow-excitatory drive weights are drawn from 0..MaxWeight
MaxWeight == 1
\* the resolved tables rotate LValues by 0..MaxShift
MaxShift == 0
\* number of sources of the common drive
MaxCommon == 2

-----------------------------------------------------------------------------
(* Strings *)

\* str.startswith(p)
StartsWith(s, p) == Len(s) >= Len(p) /\ SubSeq(s, 1, Len(p)) = p

\* sub in s
Contains(s, sub) ==
    \E i \in 1..(Len(s) - Len(sub) + 1) : SubSeq(s, i, i + Len(sub) - 1) = sub

Range(f) == {f[i] : i \in DOMAIN f}

-----------------------------------------------------------------------------
(* Resolved parameters *)

CellNames == {"L2Pyr", "L5Pyr"}

\* keys of the dictionary _get_dend_props returns
DendKeys(n) ==
    {"apical_trunk", "apical_1", "apical_tuft", "apical_oblique",
     "basal_1", "basal_2", "basal_3"}
        \cup (IF n = "L5Pyr" THEN {"apical_2"} ELSE {})

AllDendKeys == DendKeys("L5Pyr")

Receptors == {"ampa", "nmda", "gabaa", "gabab"}
SynFields == {"e", "tau1", "tau2"}

\* lengths a resolved parameter table may give a dendrite (hundredths)
LValues == <<8000, 20000, 15000, 10000, 10001, 12000, 25000, 30000>>

\* enumeration order used to spread LValues over the dendrites
DendOrder == <<"apical_trunk", "apical_1", "apical_2", "apical_tuft",
               "apical_oblique", "basal_1", "basal_2", "basal_3">>

\* the parameter-name stem _get_dend_props uses for each dendrite key
ParamStem(key) ==
    CASE key = "apical_trunk"   -> "apicaltrunk"
      [] key = "apical_1"       -> "apical1"
      [] key = "apical_2"       -> "apical2"
      [] key = "apical_tuft"    -> "apicaltuft"
      [] key = "apical_oblique" -> "apicaloblique"
      [] key = "basal_1"        -> "basal1"
      [] key = "basal_2"        -> "basal2"
      [] key = "basal_3"        -> "basal3"

IndexOf(seq, x) == CHOOSE i \in 1..Len(seq) : seq[i] = x

\* a resolved table: dendrite lengths are LValues rotated by shift, the
\* other entries are distinct per receptor and field
ParamTable(n, shift) ==
    LET lenKeys == {n \o "_" \o ParamStem(k) \o "_L" : k \in DendKeys(n)}
        diamKeys == {n \o "_" \o ParamStem(k) \o "_diam" : k \in DendKeys(n)}
        synKeys == {n \o "_" \o r \o "_" \o f : r \in Receptors, f \in SynFields}
        other == {n \o "_dend_cm", n \o "_dend_Ra", n \o "_soma_L",
                  n \o "_soma_diam", n \o "_soma_cm", n \o "_soma_Ra"}
        lenOf(k) == LValues[((IndexOf(DendOrder, k) + shift) % Len(LValues)) + 1]
        synVal(r, f) ==
            IF f = "e" THEN (IF r \in {"ampa", "nmda"} THEN 0 ELSE -8000)
            ELSE IF f = "tau1" THEN (IF r \in {"ampa", "gabaa"} THEN 50 ELSE 100)
            ELSE (IF r \in {"ampa", "gabaa"} THEN 500 ELSE 2000)
    IN  [key \in lenKeys \cup diamKeys \cup synKeys \cup other |->
            IF key \in lenKeys
              THEN lenOf(CHOOSE k \in DendKeys(n) :
                            key = n \o "_" \o ParamStem(k) \o "_L")
            ELSE IF key \in diamKeys THEN 300
            ELSE IF key \in synKeys
              THEN LET rf == CHOOSE rf \in Receptors \X SynFields :
                                key = n \o "_" \o rf[1] \o "_" \o rf[2]
                   IN synVal(rf[1], rf[2])
            ELSE IF key = n \o "_dend_cm" THEN 85
            ELSE IF key = n \o "_dend_Ra" THEN 20000
            ELSE IF key = n \o "_soma_L" THEN 2210
            ELSE IF key = n \o "_soma_diam" THEN 2340
            ELSE IF key = n \o "_soma_cm" THEN 85
            ELSE 20000]

\* Pyr._get_dend_props
get_dend_props ==
    [key \in DendKeys(name) |->
        [L    |-> p_all[name \o "_" \o ParamStem(key) \o "_L"],
         diam |-> p_all[name \o "_" \o ParamStem(key) \o "_diam"],
         cm   |-> p_all[name \o "_dend_cm"],
         Ra   |-> p_all[name \o "_dend_Ra"]]]

\* Pyr._get_syn_props
get_syn_props ==
    [r \in Receptors |->
        [e    |-> p_all[name \o "_" \o r \o "_e"],
         tau1 |-> p_all[name \o "_" \o r \o "_tau1"],
         tau2 |-> p_all[name \o "_" \o r \o "_tau2"]]]

\* L2Pyr._get_soma_props / L5Pyr.__get_soma_props
get_soma_props ==
    [L    |-> p_all[name \o "_soma_L"],
     diam |-> p_all[name \o "_soma_diam"],
     cm   |-> p_all[name \o "_soma_cm"],
     Ra   |-> p_all[name \o "_soma_Ra"],
     name |-> name]

-----------------------------------------------------------------------------
(* The gid space and the positions (network assembler) *)

\* self.celltype as the subclass constructor sets it
CellTypeOf(n) == IF n = "L2Pyr" THEN "L2_pyramidal" ELSE "L5Pyr"

NPyr == MaxGid + 1
NCells == 2 * NPyr + 2

DriveTypes == <<"extgauss", "extpois", "evprox1", "evdist1", "extinput">>

\* gid_dict: population or drive type -> its contiguous list of gids
gid_dict ==
    LET pops == [t \in {"L2_pyramidal", "L5Pyr", "L2_basket", "L5_basket"} |->
                    CASE t = "L2_pyramidal" -> [i \in 1..NPyr |-> i - 1]
                      [] t = "L5Pyr"        -> [i \in 1..NPyr |-> NPyr + i - 1]
                      [] t = "L2_basket"    -> <<2 * NPyr>>
                      [] t = "L5_basket"    -> <<2 * NPyr + 1>>]
        drives == [t \in Range(DriveTypes) |->
                    [i \in 1..NCells |-> NCells * IndexOf(DriveTypes, t) + i - 1]]
        common == [t \in {"common"} |->
                    [i \in 1..MaxCommon |->
                        NCells * (Len(DriveTypes) + 1) + i - 1]]
    IN  pops @@ drives @@ common

\* pos_dict[type][gid]: the position of the drive source paired with a cell
pos_src_of(type, g) == <<IndexOf(DriveTypes, type), g>>

\* pos_dict['common'][i]: the position of the i-th common source
pos_common(i) == <<0, i>>

-----------------------------------------------------------------------------
(* The state at the start of __init__: parameters resolved, nothing built *)

NoParent == [sec |-> "", x |-> -1]

Init ==
    /\ name \in CellNames
    /\ gid \in Range(gid_dict[CellTypeOf(name)])
    /\ \E shift \in 0..MaxShift : p_all = ParamTable(name, shift)
    /\ pc = "start"
    /\ celltype = ""
    /\ dends = {}
    /\ list_dend = <<>>
    /\ sect_loc = <<>>
    /\ parent = <<>>
    /\ geo = <<>>
    /\ mechs = <<>>
    /\ gbar_ar = <<>>
    /\ yscale = <<>>
    /\ synapses = <<>>
    /\ nc = <<>>
    /\ diag = 0
    /\ err = ""
    /\ calls = 0
    /\ last = [op |-> ""]

-----------------------------------------------------------------------------
(* Construction: the calls of L2Pyr.__init__ / L5Pyr.__init__ in order *)

NcLists == {"ncfrom_common", "ncfrom_extgauss", "ncfrom_extpois",
            "ncfrom_L2Pyr", "ncfrom_L5Pyr", "ncfrom_L2Basket",
            "ncfrom_L5Basket"}

\* faulty variant: the biophysics is set before the geometry
InitOrder_BiophysBeforeGeom ==
    <<"start", "create_dends", "topol", "biophys", "geom",
      "get_sectnames", "synapse_create", "built">>

\* the steps of L2Pyr.__init__ / L5Pyr.__init__ in the order they are called
InitOrder == <<"start", "create_dends", "topol", "geom", "biophys",
               "get_sectnames", "synapse_create", "built">>

\* the step __init__ takes after step p
StepAfter(p) == InitOrder[IndexOf(InitOrder, p) + 1]

\* _Cell.__init__ and create_soma: the soma section with the somatic
\* properties, empty connection lists
Cell_init(soma_props) ==
    /\ geo' = ("soma" :> [L |-> soma_props.L, diam |-> soma_props.diam,
                          Ra |-> soma_props.Ra, cm |-> soma_props.cm,
                          nseg |-> 1])
    /\ nc' = [l \in NcLists |-> <<>>]

\* Pyr.__init__ and the celltype assignment that follows it
Pyr_init ==
    /\ pc = "start"
    /\ Cell_init(get_soma_props)
    /\ dends' = {}
    /\ synapses' = <<>>
    /\ sect_loc' = <<>>
    /\ list_dend' = <<>>
    /\ celltype' = CellTypeOf(name)
    /\ pc' = StepAfter(pc)
    /\ UNCHANGED <<name, gid, p_all, parent, mechs, yscale, diag, err, calls, last,
                   gbar_ar>>

\* the order in which create_dends lists the dendrites
ListDendOrder == <<"apical_trunk", "apical_oblique", "apical_1", "apical_2",
                   "apical_tuft", "basal_1", "basal_2", "basal_3">>

\* [x for x in seq if x in S]
RECURSIVE FilterSeq(_, _)
FilterSeq(seq, S) ==
    IF seq = <<>> THEN <<>>
    ELSE (IF Head(seq) \in S THEN <<Head(seq)>> ELSE <<>>)
             \o FilterSeq(Tail(seq), S)

\* a fresh h.Section: one segment, the simulator's default geometry
NewSection == [L |-> 10000, diam |-> 50000, Ra |-> 3540, cm |-> 100, nseg |-> 1]

\* faulty variant: the proximal locations are named by their section keys
create_dends_SectionKeys(p_dend_props) ==
    /\ dends' = dends \cup DOMAIN p_dend_props
    /\ geo' = [k \in DOMAIN p_dend_props |-> NewSection] @@ geo
    /\ parent' = [k \in DOMAIN p_dend_props |-> NoParent]
    /\ list_dend' = FilterSeq(ListDendOrder, dends')
    /\ sect_loc' = [proximal |-> <<"apical_oblique", "basal_2", "basal_3">>,
                    distal   |-> <<"apicaltuft">>]

\* Pyr.create_dends
create_dends(p_dend_props) ==
    /\ dends' = dends \cup DOMAIN p_dend_props
    /\ geo' = [k \in DOMAIN p_dend_props |-> NewSection] @@ geo
    /\ parent' = [k \in DOMAIN p_dend_props |-> NoParent]
    /\ list_dend' = FilterSeq(ListDendOrder, dends')
    /\ sect_loc' = [proximal |-> <<"apicaloblique", "basal2", "basal3">>,
                    distal   |-> <<"apicaltuft">>]

Do_create_dends ==
    /\ pc = "create_dends"
    /\ create_dends(get_dend_props)
    /\ pc' = StepAfter(pc)
    /\ UNCHANGED <<name, gid, p_all, celltype, mechs, yscale, synapses, nc,
                   diag, err, calls, last, gbar_ar>>

\* child.connect(parent, parent_end, 0) for each triple of the list in turn:
\* a section has one parent, a later connect replaces an earlier one
RECURSIVE Connect(_, _)
Connect(par, pairs) ==
    IF pairs = <<>> THEN par
    ELSE LET q == Head(pairs)
         IN Connect([par EXCEPT ![q[1]] = [sec |-> q[2], x |-> q[3]]],
                    Tail(pairs))

\* L2Pyr.topol
L2Pyr_topol_pairs ==
    << <<"apical_trunk", "soma", 1>>,
       <<"apical_1", "apical_trunk", 1>>,
       <<"apical_tuft", "apical_1", 1>>,
       <<"apical_oblique", "apical_trunk", 1>>,
       <<"basal_1", "soma", 0>>,
       <<"basal_2", "basal_1", 1>>,
       <<"basal_3", "basal_1", 1>> >>

L2Pyr_topol ==
    /\ pc = "topol"
    /\ name = "L2Pyr"
    /\ parent' = Connect(parent, L2Pyr_topol_pairs)
    /\ pc' = StepAfter(pc)
    /\ UNCHANGED <<name, gid, p_all, celltype, dends, list_dend, sect_loc, geo,
                   mechs, yscale, synapses, nc, diag, err, calls, last,
                   gbar_ar>>

\* faulty variant: the tuft is attached to apical_1, beside apical_2
L5Pyr_topol_pairs_SkipApical2 ==
    << <<"apical_trunk", "soma", 1>>,
       <<"apical_1", "apical_trunk", 1>>,
       <<"apical_2", "apical_1", 1>>,
       <<"apical_tuft", "apical_1", 1>>,
       <<"apical_oblique", "apical_trunk", 1>>,
       <<"basal_1", "soma", 0>>,
       <<"basal_2", "basal_1", 1>>,
       <<"basal_3", "basal_1", 1>> >>

\* L5Pyr.topol
L5Pyr_topol_pairs ==
    << <<"apical_trunk", "soma", 1>>,
       <<"apical_1", "apical_trunk", 1>>,
       <<"apical_2", "apical_1", 1>>,
       <<"apical_tuft", "apical_2", 1>>,
       <<"apical_oblique", "apical_trunk", 1>>,
       <<"basal_1", "soma", 0>>,
       <<"basal_2", "basal_1", 1>>,
       <<"basal_3", "basal_1", 1>> >>

L5Pyr_topol ==
    /\ pc = "topol"
    /\ name = "L5Pyr"
    /\ parent' = Connect(parent, L5Pyr_topol_pairs)
    /\ pc' = StepAfter(pc)
    /\ UNCHANGED <<name, gid, p_all, celltype, dends, list_dend, sect_loc, geo,
                   mechs, yscale, synapses, nc, diag, err, calls, last,
                   gbar_ar>>

\* segment count of a dendrite of length len that has cur segments
\* (lengths in hundredths: 100. is NsegThreshold, 50. is NsegStep)
NsegThreshold == 10000
NsegStep == 5000

\* faulty variant: the count is not made odd
NsegRule_NoOdd(len, cur) ==
    IF len > NsegThreshold THEN len \div NsegStep ELSE cur

NsegRule(len, cur) ==
    IF len > NsegThreshold
      THEN LET n == len \div NsegStep
           IN IF n % 2 = 0 THEN n + 1 ELSE n
      ELSE cur

\* Pyr.set_dend_props, applied to the section table g
set_dend_props(g, p_dend_props) ==
    [sec \in DOMAIN g |->
        IF sec \in DOMAIN p_dend_props
          THEN [L    |-> p_dend_props[sec].L,
                diam |-> p_dend_props[sec].diam,
                Ra   |-> p_dend_props[sec].Ra,
                cm   |-> p_dend_props[sec].cm,
                nseg |-> NsegRule(p_dend_props[sec].L, g[sec].nseg)]
          ELSE g[sec]]

\* soma.L, soma.diam and dend[i].L, dend[i].diam := the hardcoded values
HardcodedGeom(g, dend, somaL, somaDiam, Ls, diams) ==
    [sec \in DOMAIN g |->
        IF sec = "soma" THEN [g[sec] EXCEPT !.L = somaL, !.diam = somaDiam]
        ELSE IF \E i \in 1..Len(Ls) : dend[i] = sec
          THEN LET i == CHOOSE i \in 1..Len(Ls) : dend[i] = sec
               IN [g[sec] EXCEPT !.L = Ls[i], !.diam = diams[i]]
        ELSE g[sec]]

\* L2Pyr.geom
L2Pyr_geom(p_dend) ==
    geo' = set_dend_props(
              HardcodedGeom(geo, list_dend, 2210, 2340,
                  <<5950, 34000, 30600, 23800, 8500, 25500, 25500>>,
                  <<425, 391, 408, 340, 425, 272, 272>>),
              p_dend)

Do_L2Pyr_geom ==
    /\ pc = "geom"
    /\ name = "L2Pyr"
    /\ L2Pyr_geom(get_dend_props)
    /\ pc' = StepAfter(pc)
    /\ UNCHANGED <<name, gid, p_all, celltype, dends, list_dend, sect_loc,
                   parent, mechs, yscale, synapses, nc, diag, err, calls, last,
                   gbar_ar>>

\* L5Pyr.geom
L5Pyr_geom(p_dend) ==
    geo' = set_dend_props(
              HardcodedGeom(geo, list_dend, 3900, 2890,
                  <<10200, 25500, 68000, 68000, 42500, 8500, 25500, 25500>>,
                  <<1020, 510, 748, 493, 340, 680, 850, 850>>),
              p_dend)

Do_L5Pyr_geom ==
    /\ pc = "geom"
    /\ name = "L5Pyr"
    /\ L5Pyr_geom(get_dend_props)
    /\ pc' = StepAfter(pc)
    /\ UNCHANGED <<name, gid, p_all, celltype, dends, list_dend, sect_loc,
                   parent, mechs, yscale, synapses, nc, diag, err, calls, last,
                   gbar_ar>>

\* L2Pyr._biophys_soma and L2Pyr._biophys_dends: the inserted mechanisms
L2Pyr_biophys ==
    /\ pc = "biophys"
    /\ name = "L2Pyr"
    /\ mechs' = [sec \in {"soma"} \cup dends |-> {"hh2", "km"}]
    /\ pc' = StepAfter(pc)
    /\ UNCHANGED <<name, gid, p_all, celltype, dends, list_dend, sect_loc,
                   parent, geo, yscale, synapses, nc, diag, err, calls, last,
                   gbar_ar>>

\* Distances are kept in units of 1/(2 * SegUnit) of a hundredth, so that the
\* centre (2i - 1)/(2n) of segment i of n falls on an integer for n = 1, 3, 5, 7
SegUnit == 3 * 5 * 7

\* path length from the 0 end of the soma (the origin h.distance(sec=soma)
\* sets) to the point x (0 or 1) of section sec
RECURSIVE DistanceToEnd(_, _, _, _)
DistanceToEnd(par, g, sec, x) ==
    IF sec = "soma" THEN x * g["soma"].L * 2 * SegUnit
    ELSE DistanceToEnd(par, g, par[sec].sec, par[sec].x)
             + x * g[sec].L * 2 * SegUnit

\* faulty variant: the distance is measured from the start of the section
Distance_WithinSection(par, g, sec, i) ==
    g[sec].L * (2 * i - 1) * (SegUnit \div g[sec].nseg)

\* h.distance(seg.x) for segment i of the pushed section sec
Distance(par, g, sec, i) ==
    DistanceToEnd(par, g, sec, 0)
        + g[sec].L * (2 * i - 1) * (SegUnit \div g[sec].nseg)

\* 1e-6 * np.exp(3e-3 * d): the factor in millionths, the rate in thousandths.
\* The density is kept as its factor and the argument of the exponential;
\* of two densities with one factor the larger is the one with the larger
\* argument.
GbarArBase == 1
GbarArRate == 3

GbarAr(d) == [base |-> GbarArBase, arg |-> GbarArRate * d]

\* L5Pyr.__biophys_soma and L5Pyr.__biophys_dends: the inserted mechanisms
\* and the h-current density of every segment of every dendrite
L5Pyr_biophys ==
    /\ pc = "biophys"
    /\ name = "L5Pyr"
    /\ mechs' = [sec \in {"soma"} \cup dends |->
                    {"hh2", "ca", "cad", "kca", "km", "cat", "ar"}]
    /\ gbar_ar' = [key \in dends |->
                      [i \in 1..geo[key].nseg |->
                          GbarAr(Distance(parent, geo, key, i))]]
    /\ pc' = StepAfter(pc)
    /\ UNCHANGED <<name, gid, p_all, celltype, dends, list_dend, sect_loc,
                   parent, geo, yscale, synapses, nc, diag, err, calls, last>>

\* the section at the root of sec's parent chain ("" when the chain is cut)
RECURSIVE RootOf(_, _, _)
RootOf(par, sec, fuel) ==
    IF sec = "soma" THEN "soma"
    ELSE IF fuel = 0 \/ sec \notin DOMAIN par THEN ""
    ELSE RootOf(par, par[sec].sec, fuel - 1)

\* seclist.wholetree(sec=self.soma): the soma and every section joined to it
WholeTree == {"soma"} \cup {d \in dends : RootOf(parent, d, Cardinality(dends)) = "soma"}

\* sect.name(): the name the section was created with
SectName(sec) == name \o "_" \o sec

\* axial projection factors in thousandths: 1. and sqrt(2)/2
YOne == 1000
YCos45 == 707

\* faulty variant: the sign of the basal sections is not flipped
SectFactor_NoSign(key) ==
    IF Contains(key, "basal_2") THEN YCos45
    ELSE IF Contains(key, "basal_3") THEN YCos45
    ELSE IF Contains(key, "apical_oblique") THEN 0
    ELSE YOne

\* the factor get_sectnames gives the section called key
SectFactor(key) ==
    LET d1 == IF Contains(key, "basal_2") THEN YCos45
              ELSE IF Contains(key, "basal_3") THEN YCos45
              ELSE IF Contains(key, "apical_oblique") THEN 0
              ELSE YOne
    IN IF Contains(key, "basal") THEN -d1 ELSE d1

\* Pyr.get_sectnames
get_sectnames ==
    [key \in {SectName(sec) : sec \in WholeTree} |-> SectFactor(key)]

Do_get_sectnames ==
    /\ pc = "get_sectnames"
    /\ yscale' = get_sectnames
    /\ pc' = StepAfter(pc)
    /\ UNCHANGED <<name, gid, p_all, celltype, dends, list_dend, sect_loc,
                   parent, geo, mechs, synapses, nc, diag, err, calls, last,
                   gbar_ar>>

\* sec(0.5): the midpoint of a section, in hundredths of its length
Midpoint == 50

\* _Cell.syn_create(secloc, e, tau1, tau2)
syn_create(sec, x, props) ==
    [sec |-> sec, x |-> x, e |-> props.e, tau1 |-> props.tau1,
     tau2 |-> props.tau2]

\* faulty variant: the nmda synapse of basal_2 is registered under the section key
SynapseTable_MisKeyed(n) ==
    << <<"soma_gabaa", "soma", "gabaa">>,
       <<"soma_gabab", "soma", "gabab">>,
       <<"apicaloblique_ampa", "apical_oblique", "ampa">>,
       <<"apicaloblique_nmda", "apical_oblique", "nmda">>,
       <<"basal2_ampa", "basal_2", "ampa">>,
       <<"basal_2_nmda", "basal_2", "nmda">>,
       <<"basal3_ampa", "basal_3", "ampa">>,
       <<"basal3_nmda", "basal_3", "nmda">>,
       <<"apicaltuft_ampa", "apical_tuft", "ampa">>,
       <<"apicaltuft_nmda", "apical_tuft", "nmda">> >>
    \o (IF n = "L5Pyr"
          THEN << <<"apicaltuft_gabaa", "apical_tuft", "gabaa">> >>
          ELSE <<>>)

\* faulty variant: the tuft receptor of L5Pyr is created from the gabab properties
SynapseTable_TuftSlow(n) ==
    << <<"soma_gabaa", "soma", "gabaa">>,
       <<"soma_gabab", "soma", "gabab">>,
       <<"apicaloblique_ampa", "apical_oblique", "ampa">>,
       <<"apicaloblique_nmda", "apical_oblique", "nmda">>,
       <<"basal2_ampa", "basal_2", "ampa">>,
       <<"basal2_nmda", "basal_2", "nmda">>,
       <<"basal3_ampa", "basal_3", "ampa">>,
       <<"basal3_nmda", "basal_3", "nmda">>,
       <<"apicaltuft_ampa", "apical_tuft", "ampa">>,
       <<"apicaltuft_nmda", "apical_tuft", "nmda">> >>
    \o (IF n = "L5Pyr"
          THEN << <<"apicaltuft_gabaa", "apical_tuft", "gabab">> >>
          ELSE <<>>)

\* the (key, section, receptor) triples of Pyr._synapse_create
SynapseTable(n) ==
    << <<"soma_gabaa", "soma", "gabaa">>,
       <<"soma_gabab", "soma", "gabab">>,
       <<"apicaloblique_ampa", "apical_oblique", "ampa">>,
       <<"apicaloblique_nmda", "apical_oblique", "nmda">>,
       <<"basal2_ampa", "basal_2", "ampa">>,
       <<"basal2_nmda", "basal_2", "nmda">>,
       <<"basal3_ampa", "basal_3", "ampa">>,
       <<"basal3_nmda", "basal_3", "nmda">>,
       <<"apicaltuft_ampa", "apical_tuft", "ampa">>,
       <<"apicaltuft_nmda", "apical_tuft", "nmda">> >>
    \o (IF n = "L5Pyr"
          THEN << <<"apicaltuft_gabaa", "apical_tuft", "gabaa">> >>
          ELSE <<>>)

\* Pyr._synapse_create: the entries are registered in turn; self.dends[k]
\* of a key that holds no section raises KeyError and ends the registration
synapse_create(p_syn) ==
    LET tab == SynapseTable(name)
        miss == {i \in DOMAIN tab : tab[i][2] \notin {"soma"} \cup dends}
        stop == IF miss = {} THEN Len(tab) + 1
                ELSE CHOOSE i \in miss : \A j \in miss : i <= j
    IN /\ synapses' =
              [key \in {tab[i][1] : i \in 1..(stop - 1)} |->
                  LET t == tab[CHOOSE i \in DOMAIN tab : tab[i][1] = key]
                  IN syn_create(t[2], Midpoint, p_syn[t[3]])]
                @@ synapses
       /\ err' = IF miss = {} THEN "" ELSE "KeyError"

Do_synapse_create ==
    /\ pc = "synapse_create"
    /\ synapse_create(get_syn_props)
    /\ pc' = IF err' = "" THEN StepAfter(pc) ELSE "raised"
    /\ UNCHANGED <<name, gid, p_all, celltype, dends, list_dend, sect_loc,
                   parent, geo, mechs, yscale, nc, diag, calls, last,
                   gbar_ar>>

\* the base class used directly: create_dends on any sub-table of the
\* dendrite properties, _synapse_create next
Pyr_create_dends ==
    /\ pc = "create_dends"
    /\ \E keys \in SUBSET DOMAIN get_dend_props :
          create_dends([k \in keys |-> get_dend_props[k]])
    /\ pc' = "synapse_create"
    /\ UNCHANGED <<name, gid, p_all, celltype, mechs, yscale, synapses, nc,
                   diag, err, calls, last, gbar_ar>>

-----------------------------------------------------------------------------
(* Wiring of the built cell *)

\* the parameters of one external drive: an entry (ampa weight, nmda weight,
\* delay) per targeted cell type, the decay constants, the threshold and the
\* target location.  The ampa weight and the delay differ from every nmda
\* weight, and the two decay constants differ.
PExt(targeted, w_nmda, loc) ==
    LET own == CellTypeOf(name)
        other == IF own = "L2_pyramidal" THEN "L5Pyr" ELSE "L2_pyramidal"
        base == [k \in {"lamtha_space", "lamtha", "threshold", "loc", other} |->
                    CASE k = "lamtha_space" -> 300
                      [] k = "lamtha"       -> 10000
                      [] k = "threshold"    -> 0
                      [] k = "loc"          -> loc
                      [] OTHER -> <<MaxWeight + 3, MaxWeight + 4, MaxWeight + 5>>]
    IN IF targeted
         THEN (own :> <<MaxWeight + 1, w_nmda, MaxWeight + 2>>) @@ base
         ELSE base

\* _Cell._connect_feed_at_loc: the connection from gid_src onto the receptor
\* at every location name of sect_loc[feed_loc], with the values of nc_dict
connect_feed_at_loc(feed_loc, receptor, gid_src, nc_dict) ==
    [gid_src   |-> gid_src,
     feed_loc  |-> feed_loc,
     receptor  |-> receptor,
     syns      |-> {l \o "_" \o receptor : l \in Range(sect_loc[feed_loc])},
     pos_src   |-> nc_dict.pos_src,
     A_weight  |-> nc_dict.A_weight,
     A_delay   |-> nc_dict.A_delay,
     lamtha    |-> nc_dict.lamtha,
     threshold |-> nc_dict.threshold,
     type_src  |-> nc_dict.type_src]

\* faulty variant: every cell is wired to the first source of an evoked drive
EvokedBranch_FirstGid(type, g, p_ext) ==
    IF celltype \in DOMAIN p_ext
      THEN LET gid_ev == gid_dict[type][1]
               nc_dict ==
                   [r \in {"ampa", "nmda"} |->
                       [pos_src   |-> pos_src_of(type, g),
                        A_weight  |-> p_ext[celltype][IF r = "ampa" THEN 1 ELSE 2],
                        A_delay   |-> p_ext[celltype][3],
                        lamtha    |-> p_ext["lamtha_space"],
                        threshold |-> p_ext["threshold"],
                        type_src  |-> type]]
           IN << connect_feed_at_loc(p_ext["loc"], "ampa", gid_ev, nc_dict["ampa"]),
                 connect_feed_at_loc(p_ext["loc"], "nmda", gid_ev, nc_dict["nmda"]) >>
      ELSE <<>>

\* faulty variant: the nmda connection of an evoked drive carries the ampa weight
EvokedBranch_SameWeight(type, g, p_ext) ==
    IF celltype \in DOMAIN p_ext
      THEN LET gid_ev == g + gid_dict[type][1]
               nc_dict == [pos_src   |-> pos_src_of(type, g),
                           A_weight  |-> p_ext[celltype][1],
                           A_delay   |-> p_ext[celltype][3],
                           lamtha    |-> p_ext["lamtha_space"],
                           threshold |-> p_ext["threshold"],
                           type_src  |-> type]
           IN << connect_feed_at_loc(p_ext["loc"], "ampa", gid_ev, nc_dict),
                 connect_feed_at_loc(p_ext["loc"], "nmda", gid_ev, nc_dict) >>
      ELSE <<>>

\* the evoked branch of parreceive_ext: the connections appended to
\* ncfrom_common
EvokedBranch(type, g, p_ext) ==
    IF celltype \in DOMAIN p_ext
      THEN LET gid_ev == g + gid_dict[type][1]
               nc_dict ==
                   [r \in {"ampa", "nmda"} |->
                       [pos_src   |-> pos_src_of(type, g),
                        A_weight  |-> p_ext[celltype][IF r = "ampa" THEN 1 ELSE 2],
                        A_delay   |-> p_ext[celltype][3],
                        lamtha    |-> p_ext["lamtha_space"],
                        threshold |-> p_ext["threshold"],
                        type_src  |-> type]]
           IN << connect_feed_at_loc(p_ext["loc"], "ampa", gid_ev, nc_dict["ampa"]),
                 connect_feed_at_loc(p_ext["loc"], "nmda", gid_ev, nc_dict["nmda"]) >>
      ELSE <<>>

\* faulty variant: the Gaussian drive also wires the nmda receptor when its weight
\* is positive
GaussBranch_WithNmda(type, g, p_ext) ==
    IF celltype \in DOMAIN p_ext
      THEN LET gid_extgauss == g + gid_dict["extgauss"][1]
               nc_dict == [pos_src   |-> pos_src_of("extgauss", g),
                           A_weight  |-> p_ext[celltype][1],
                           A_delay   |-> p_ext[celltype][3],
                           lamtha    |-> p_ext["lamtha"],
                           threshold |-> p_ext["threshold"],
                           type_src  |-> type]
           IN << connect_feed_at_loc("proximal", "ampa", gid_extgauss, nc_dict) >>
              \o (IF p_ext[celltype][2] > 0
                    THEN << connect_feed_at_loc(
                               "proximal", "nmda", gid_extgauss,
                               [nc_dict EXCEPT !.A_weight = p_ext[celltype][2]]) >>
                    ELSE <<>>)
      ELSE <<>>

\* the extgauss branch: the connections appended to ncfrom_extgauss
GaussBranch(type, g, p_ext) ==
    IF celltype \in DOMAIN p_ext
      THEN LET gid_extgauss == g + gid_dict["extgauss"][1]
               nc_dict == [pos_src   |-> pos_src_of("extgauss", g),
                           A_weight  |-> p_ext[celltype][1],
                           A_delay   |-> p_ext[celltype][3],
                           lamtha    |-> p_ext["lamtha"],
                           threshold |-> p_ext["threshold"],
                           type_src  |-> type]
           IN << connect_feed_at_loc("proximal", "ampa", gid_extgauss, nc_dict) >>
      ELSE <<>>

\* faulty variant: the Poisson drive wires the nmda receptor whatever its weight
PoisBranch_NoGuard(type, g, p_ext) ==
    IF celltype \in DOMAIN p_ext
      THEN LET gid_extpois == g + gid_dict["extpois"][1]
               nc_dict == [pos_src   |-> pos_src_of("extpois", g),
                           A_weight  |-> p_ext[celltype][1],
                           A_delay   |-> p_ext[celltype][3],
                           lamtha    |-> p_ext["lamtha_space"],
                           threshold |-> p_ext["threshold"],
                           type_src  |-> type]
           IN << connect_feed_at_loc("proximal", "ampa", gid_extpois, nc_dict),
                 connect_feed_at_loc(
                     "proximal", "nmda", gid_extpois,
                     [nc_dict EXCEPT !.A_weight = p_ext[celltype][2]]) >>
      ELSE <<>>

\* the extpois branch: the connections appended to ncfrom_extpois
PoisBranch(type, g, p_ext) ==
    IF celltype \in DOMAIN p_ext
      THEN LET gid_extpois == g + gid_dict["extpois"][1]
               nc_dict == [pos_src   |-> pos_src_of("extpois", g),
                           A_weight  |-> p_ext[celltype][1],
                           A_delay   |-> p_ext[celltype][3],
                           lamtha    |-> p_ext["lamtha_space"],
                           threshold |-> p_ext["threshold"],
                           type_src  |-> type]
           IN << connect_feed_at_loc("proximal", "ampa", gid_extpois, nc_dict) >>
              \o (IF p_ext[celltype][2] > 0
                    THEN << connect_feed_at_loc(
                               "proximal", "nmda", gid_extpois,
                               [nc_dict EXCEPT !.A_weight = p_ext[celltype][2]]) >>
                    ELSE <<>>)
      ELSE <<>>

\* faulty variant: an unrecognised type falls through to the Poisson branch
ExtBranchOf_Fallthrough(type) ==
    IF StartsWith(type, "evprox") \/ StartsWith(type, "evdist") THEN "evoked"
    ELSE IF type = "extgauss" THEN "extgauss"
    ELSE "extpois"

\* which branch of parreceive_ext a drive type takes
ExtBranchOf(type) ==
    IF StartsWith(type, "evprox") \/ StartsWith(type, "evdist") THEN "evoked"
    ELSE IF type = "extgauss" THEN "extgauss"
    ELSE IF type = "extpois" THEN "extpois"
    ELSE "unknown"

\* Pyr.parreceive_ext(type, gid, gid_dict, pos_dict, p_ext)
parreceive_ext(type, g, p_ext) ==
    LET b == ExtBranchOf(type)
    IN /\ nc' = CASE b = "evoked" ->
                      [nc EXCEPT !["ncfrom_common"] = @ \o EvokedBranch(type, g, p_ext)]
                  [] b = "extgauss" ->
                      [nc EXCEPT !["ncfrom_extgauss"] = @ \o GaussBranch(type, g, p_ext)]
                  [] b = "extpois" ->
                      [nc EXCEPT !["ncfrom_extpois"] = @ \o PoisBranch(type, g, p_ext)]
                  [] OTHER -> nc
       /\ diag' = IF b = "unknown" THEN diag + 1 ELSE diag
       /\ err' = ""

\* the last wiring call: what was called and with which arguments
Do_parreceive_ext ==
    /\ pc = "built"
    /\ calls < MaxCalls
    /\ \E type \in Range(DriveTypes), targeted \in BOOLEAN,
          w_nmda \in 0..MaxWeight, loc \in {"proximal", "distal"} :
          /\ parreceive_ext(type, gid, PExt(targeted, w_nmda, loc))
          /\ last' = [op |-> "parreceive_ext", type |-> type,
                      p_ext |-> PExt(targeted, w_nmda, loc), nc |-> nc,
                      diag |-> diag]
    /\ calls' = calls + 1
    /\ UNCHANGED <<name, gid, p_all, pc, celltype, dends, list_dend, sect_loc,
                   parent, geo, mechs, yscale, synapses, gbar_ar>>

\* the parameters of the i-th common source.  shape tells which keys it
\* holds: "full" both receptor entries and 'loc', "ampa" / "nmda" only that
\* receptor's entry, "noloc" both entries and no 'loc'.  Every weight and
\* delay differs from every other one.
CommonShapes == {"full", "ampa", "nmda", "noloc"}

PSrc(i, shape) ==
    LET keys == {"lamtha", "threshold"}
                  \cup (IF shape = "noloc" THEN {} ELSE {"loc"})
                  \cup (IF shape = "nmda" THEN {} ELSE {name \o "_ampa"})
                  \cup (IF shape = "ampa" THEN {} ELSE {name \o "_nmda"})
    IN [k \in keys |->
           CASE k = "lamtha"    -> 10000
             [] k = "threshold" -> 0
             [] k = "loc"       -> IF i % 2 = 1 THEN "proximal" ELSE "distal"
             [] k = name \o "_ampa" -> <<4 * i + 1, 4 * i + 2>>
             [] OTHER -> <<4 * i + 3, 4 * i + 4>>]

\* the loop of Pyr.parreceive from its k-th pass on (source (k + 1) \div 2,
\* receptor ampa on odd passes, nmda on even ones).  nc_dict is <<>> while
\* the name is unbound, else the one dictionary it is bound to; acc holds
\* the connections made so far.  The call of _connect_feed_at_loc follows
\* the if, whether or not the if assigned nc_dict.
RECURSIVE parreceive_from(_, _, _, _)
parreceive_from(p_ext, k, nc_dict, acc) ==
    LET n == IF Len(p_ext) < Len(gid_dict["common"])
               THEN Len(p_ext) ELSE Len(gid_dict["common"])
        i == (k + 1) \div 2
        receptor == IF k % 2 = 1 THEN "ampa" ELSE "nmda"
        p_src == p_ext[i]
        key == name \o "_" \o receptor
        bound == IF key \in DOMAIN p_src
                   THEN << [pos_src   |-> pos_common(i),
                            A_weight  |-> p_src[key][1],
                            A_delay   |-> p_src[key][2],
                            lamtha    |-> p_src["lamtha"],
                            threshold |-> p_src["threshold"],
                            type_src  |-> "ext"] >>
                   ELSE nc_dict
    IN IF k > 2 * n THEN [conns |-> acc, err |-> ""]
       ELSE IF "loc" \notin DOMAIN p_src
         THEN [conns |-> acc, err |-> "KeyError"]
       ELSE IF bound = <<>>
         THEN [conns |-> acc, err |-> "UnboundLocalError"]
       ELSE parreceive_from(
                p_ext, k + 1, bound,
                Append(acc, connect_feed_at_loc(p_src["loc"], receptor,
                                                gid_dict["common"][i],
                                                bound[1])))

\* faulty variant: the list is replaced by the connections of this call
parreceive_Overwrite(p_ext) ==
    LET run == parreceive_from(p_ext, 1, <<>>, <<>>)
    IN /\ nc' = [nc EXCEPT !["ncfrom_common"] = run.conns]
       /\ err' = run.err
       /\ diag' = diag

\* Pyr.parreceive(gid, gid_dict, pos_dict, p_ext): the connections made
\* before an exception, if any, stay in ncfrom_common
parreceive(p_ext) ==
    LET run == parreceive_from(p_ext, 1, <<>>, <<>>)
    IN /\ nc' = [nc EXCEPT !["ncfrom_common"] = @ \o run.conns]
       /\ err' = run.err
       /\ diag' = diag

Do_parreceive ==
    /\ pc = "built"
    /\ calls < MaxCalls
    /\ \E n \in 1..MaxCommon : \E shapes \in [1..n -> CommonShapes] :
          LET p_ext == [i \in 1..n |-> PSrc(i, shapes[i])]
          IN /\ parreceive(p_ext)
             /\ last' = [op |-> "parreceive", type |-> "common",
                         p_ext |-> p_ext, nc |-> nc, diag |-> diag]
    /\ calls' = calls + 1
    /\ UNCHANGED <<name, gid, p_all, pc, celltype, dends, list_dend, sect_loc,
                   parent, geo, mechs, yscale, synapses, gbar_ar>>

\* the first drive call on a built cell
First_call ==
    /\ calls = 0
    /\ (Do_parreceive_ext \/ Do_parreceive)

\* the same call made again on the same cell: last keeps the call, the lists
\* before this run and before the run preceding it, and that run's exception
Repeat_call ==
    /\ pc = "built"
    /\ calls >= 1
    /\ calls < MaxCalls
    /\ last.op \in {"parreceive_ext", "parreceive"}
    /\ IF last.op = "parreceive_ext"
         THEN parreceive_ext(last.type, gid, last.p_ext)
         ELSE parreceive(last.p_ext)
    /\ last' = [op |-> last.op, type |-> last.type, p_ext |-> last.p_ext,
                nc |-> nc, diag |-> diag, prev_nc |-> last.nc,
                prev_err |-> err]
    /\ calls' = calls + 1
    /\ UNCHANGED <<name, gid, p_all, pc, celltype, dends, list_dend, sect_loc,
                   parent, geo, mechs, yscale, synapses, gbar_ar>>

\* an argument the caller leaves out
NoArg == "<missing>"

\* the default of _connect's autapses argument: autapses are included
DefaultAutapses == TRUE

\* _Cell._connect: for every source gid of the population type_src, autapse
\* skipped when excluded, one connection onto each synapse of postsyns,
\* appended to the list of the source cell name
connect(ncs, g, c) ==
    LET srcs == gid_dict[c.type_src]
        auta == IF c.autapses = NoArg THEN DefaultAutapses
                ELSE c.autapses = "True"
        one(src) ==
            IF ~auta /\ src = g THEN <<>>
            ELSE [i \in 1..Len(c.postsyns) |->
                     [gid_src  |-> src,
                      syn      |-> c.postsyns[i],
                      receptor |-> c.receptor,
                      lamtha   |-> c.lamtha,
                      type_src |-> c.type_src]]
        RECURSIVE all(_)
        all(i) == IF i > Len(srcs) THEN <<>> ELSE one(srcs[i]) \o all(i + 1)
    IN [ncs EXCEPT !["ncfrom_" \o c.name_src] = @ \o all(1)]

\* the _connect calls of a parconnect, made in turn
RECURSIVE ConnectAll(_, _, _)
ConnectAll(ncs, g, cs) ==
    IF cs = <<>> THEN ncs
    ELSE ConnectAll(connect(ncs, g, Head(cs)), g, Tail(cs))

\* faulty variant: the calls for the cell's own population leave autapses at the
\* default
L2Pyr_parconnect_calls_Autapses ==
    << [type_src |-> "L2_pyramidal", name_src |-> "L2Pyr", lamtha |-> 300,
        receptor |-> "ampa", autapses |-> NoArg,
        postsyns |-> <<"apicaloblique_ampa", "basal2_ampa", "basal3_ampa">>],
       [type_src |-> "L2_pyramidal", name_src |-> "L2Pyr", lamtha |-> 300,
        receptor |-> "nmda", autapses |-> NoArg,
        postsyns |-> <<"apicaloblique_nmda", "basal2_nmda", "basal3_nmda">>],
       [type_src |-> "L2_basket", name_src |-> "L2Basket", lamtha |-> 5000,
        receptor |-> "gabaa", autapses |-> NoArg,
        postsyns |-> <<"soma_gabaa">>],
       [type_src |-> "L2_basket", name_src |-> "L2Basket", lamtha |-> 5000,
        receptor |-> "gabab", autapses |-> NoArg,
        postsyns |-> <<"soma_gabab">>] >>

\* the arguments of the _connect calls of L2Pyr.parconnect
L2Pyr_parconnect_calls ==
    << [type_src |-> "L2_pyramidal", name_src |-> "L2Pyr", lamtha |-> 300,
        receptor |-> "ampa", autapses |-> "False",
        postsyns |-> <<"apicaloblique_ampa", "basal2_ampa", "basal3_ampa">>],
       [type_src |-> "L2_pyramidal", name_src |-> "L2Pyr", lamtha |-> 300,
        receptor |-> "nmda", autapses |-> "False",
        postsyns |-> <<"apicaloblique_nmda", "basal2_nmda", "basal3_nmda">>],
       [type_src |-> "L2_basket", name_src |-> "L2Basket", lamtha |-> 5000,
        receptor |-> "gabaa", autapses |-> NoArg,
        postsyns |-> <<"soma_gabaa">>],
       [type_src |-> "L2_basket", name_src |-> "L2Basket", lamtha |-> 5000,
        receptor |-> "gabab", autapses |-> NoArg,
        postsyns |-> <<"soma_gabab">>] >>

\* the arguments of the _connect calls of L5Pyr.parconnect; the two calls
\* for the cell's own population pass one positional name only
L5Pyr_parconnect_calls ==
    << [type_src |-> "L5Pyr", name_src |-> NoArg, lamtha |-> 300,
        receptor |-> "ampa", autapses |-> "False",
        postsyns |-> <<"apicaloblique_ampa", "basal2_ampa", "basal3_ampa">>],
       [type_src |-> "L5Pyr", name_src |-> NoArg, lamtha |-> 300,
        receptor |-> "nmda", autapses |-> "False",
        postsyns |-> <<"apicaloblique_nmda", "basal2_nmda", "basal3_nmda">>],
       [type_src |-> "L5_basket", name_src |-> "L5Basket", lamtha |-> 7000,
        receptor |-> "gabaa", autapses |-> NoArg,
        postsyns |-> <<"soma_gabaa">>],
       [type_src |-> "L5_basket", name_src |-> "L5Basket", lamtha |-> 7000,
        receptor |-> "gabab", autapses |-> NoArg,
        postsyns |-> <<"soma_gabab">>],
       [type_src |-> "L2_pyramidal", name_src |-> "L2Pyr", lamtha |-> 300,
        receptor |-> NoArg, autapses |-> NoArg,
        postsyns |-> <<"basal2_ampa", "basal3_ampa", "apicaltuft_ampa",
                       "apicaloblique_ampa">>],
       [type_src |-> "L2_basket", name_src |-> "L2Basket", lamtha |-> 5000,
        receptor |-> NoArg, autapses |-> NoArg,
        postsyns |-> <<"apicaltuft_gabaa">>] >>

\* self.synapses[key] for every postsyn of every call resolves
PostsynsResolve(cs) ==
    \A i \in DOMAIN cs : Range(cs[i].postsyns) \subseteq DOMAIN synapses

\* L2Pyr.parconnect
L2Pyr_parconnect ==
    /\ pc = "built"
    /\ name = "L2Pyr"
    /\ calls < MaxCalls
    /\ IF PostsynsResolve(L2Pyr_parconnect_calls)
         THEN /\ nc' = ConnectAll(nc, gid, L2Pyr_parconnect_calls)
              /\ err' = ""
         ELSE /\ nc' = nc
              /\ err' = "KeyError"
    /\ last' = [op |-> "parconnect", nc |-> nc, diag |-> diag]
    /\ calls' = calls + 1
    /\ UNCHANGED <<name, gid, p_all, pc, celltype, dends, list_dend, sect_loc,
                   parent, geo, mechs, yscale, synapses, diag, gbar_ar>>

\* the calls of L5Pyr.parconnect with the missing source name filled in by
\* the callee
L5Pyr_calls_resolved ==
    [i \in DOMAIN L5Pyr_parconnect_calls |->
        IF L5Pyr_parconnect_calls[i].name_src = NoArg
          THEN [L5Pyr_parconnect_calls[i] EXCEPT
                   !.name_src = L5Pyr_parconnect_calls[i].type_src]
          ELSE L5Pyr_parconnect_calls[i]]

\* L5Pyr.parconnect.  _connect lies outside this file: a call without the
\* source name either is rejected (TypeError at the first call, nothing is
\* wired) or is accepted with the name derived from the population.
L5Pyr_parconnect ==
    /\ pc = "built"
    /\ name = "L5Pyr"
    /\ calls < MaxCalls
    /\ \/ /\ \E i \in DOMAIN L5Pyr_parconnect_calls :
                L5Pyr_parconnect_calls[i].name_src = NoArg
          /\ nc' = nc
          /\ err' = "TypeError"
       \/ IF PostsynsResolve(L5Pyr_parconnect_calls)
            THEN /\ nc' = ConnectAll(nc, gid, L5Pyr_calls_resolved)
                 /\ err' = ""
            ELSE /\ nc' = nc
                 /\ err' = "KeyError"
    /\ last' = [op |-> "parconnect", nc |-> nc, diag |-> diag]
    /\ calls' = calls + 1
    /\ UNCHANGED <<name, gid, p_all, pc, celltype, dends, list_dend, sect_loc,
                   parent, geo, mechs, yscale, synapses, diag, gbar_ar>>

Next ==
    \/ Pyr_init
    \/ Do_create_dends
    \/ L2Pyr_topol
    \/ L5Pyr_topol
    \/ Do_L2Pyr_geom
    \/ Do_L5Pyr_geom
    \/ L2Pyr_biophys
    \/ L5Pyr_biophys
    \/ Do_get_sectnames
    \/ Do_synapse_create
    \/ Do_parreceive_ext
    \/ L2Pyr_parconnect
    \/ L5Pyr_parconnect

Spec == Init /\ [][Next]_vars

\* the base class Pyr built step by step by a caller
NextPyr ==
    \/ Pyr_init
    \/ Pyr_create_dends
    \/ Do_synapse_create

SpecPyr == Init /\ [][NextPyr]_vars

\* a cell is built, receives one drive call (parreceive_ext or parreceive)
\* and then the same call again
NextRepeat ==
    \/ Pyr_init
    \/ Do_create_dends
    \/ L2Pyr_topol
    \/ L5Pyr_topol
    \/ Do_L2Pyr_geom
    \/ Do_L5Pyr_geom
    \/ L2Pyr_biophys
    \/ L5Pyr_biophys
    \/ Do_get_sectnames
    \/ Do_synapse_create
    \/ First_call
    \/ Repeat_call

SpecRepeat == Init /\ [][NextRepeat]_vars

-----------------------------------------------------------------------------
(* Properties of the construction *)

AfterTopol == pc \in {"geom", "biophys", "get_sectnames", "synapse_create", "built"}
AfterGeom == pc \in {"biophys", "get_sectnames", "synapse_create", "built"}
AfterSectnames == pc \in {"synapse_create", "built"}
Built == pc = "built"

\* C1: once geom has run, a dendrite of resolved length L > 100 has
\* floor(L/50) segments, plus one when that is even, and a dendrite of
\* length L <= 100 has one segment; 150 gives 3, 200 gives 5, 80 gives 1;
\* every dendrite's segment count is odd.
C1_SegmentCount ==
    AfterGeom =>
        \A d \in dends :
            LET len == get_dend_props[d].L
                n == geo[d].nseg
            IN /\ geo[d].L = len
               /\ len > 10000 => n = 2 * ((len \div 5000) \div 2) + 1
               /\ len <= 10000 => n = 1
               /\ len = 15000 => n = 3
               /\ len = 20000 => n = 5
               /\ len = 8000 => n = 1
               /\ n % 2 = 1

C1_Witness ==
    /\ Built
    /\ \E d \in dends : geo[d].L = 15000 /\ geo[d].nseg = 3
    /\ \E d \in dends : geo[d].L = 20000 /\ geo[d].nseg = 5
    /\ \E d \in dends : geo[d].L = 8000 /\ geo[d].nseg = 1
    /\ \E d \in dends : geo[d].L = 30000 /\ geo[d].nseg = 7

\* the fixed tree of each subtype: dendrite -> (parent, end of the parent)
ExpectedTree(n) ==
    [d \in DendKeys(n) |->
        CASE d = "apical_trunk"   -> [sec |-> "soma", x |-> 1]
          [] d = "apical_1"       -> [sec |-> "apical_trunk", x |-> 1]
          [] d = "apical_2"       -> [sec |-> "apical_1", x |-> 1]
          [] d = "apical_tuft"    ->
                [sec |-> IF n = "L5Pyr" THEN "apical_2" ELSE "apical_1", x |-> 1]
          [] d = "apical_oblique" -> [sec |-> "apical_trunk", x |-> 1]
          [] d = "basal_1"        -> [sec |-> "soma", x |-> 0]
          [] d = "basal_2"        -> [sec |-> "basal_1", x |-> 1]
          [] d = "basal_3"        -> [sec |-> "basal_1", x |-> 1]]

\* C2: once topol has run the tree is the fixed pattern of the subtype: 7
\* dendrites for L2Pyr, 8 for L5Pyr (apical_2 is the extra one), each with
\* exactly one parent at the stated end, the soma without parent, and every
\* parent chain ends at the soma (no cycle, one root).
C2_FixedTree ==
    AfterTopol =>
        /\ dends = DendKeys(name)
        /\ Cardinality(dends) = IF name = "L2Pyr" THEN 7 ELSE 8
        /\ DendKeys("L5Pyr") \ DendKeys("L2Pyr") = {"apical_2"}
        /\ parent = ExpectedTree(name)
        /\ "soma" \notin DOMAIN parent
        /\ \A d \in dends :
              /\ parent[d].sec \in (dends \cup {"soma"}) \ {d}
              /\ RootOf(parent, d, Cardinality(dends)) = "soma"

C2_Witness ==
    /\ Built
    /\ name = "L5Pyr"
    /\ parent["apical_tuft"] = [sec |-> "apical_2", x |-> 1]
    /\ parent["basal_1"] = [sec |-> "soma", x |-> 0]

\* the location names of the registry and the section each one stands for
SynLocSection ==
    [soma |-> "soma", apicaloblique |-> "apical_oblique", basal2 |-> "basal_2",
     basal3 |-> "basal_3", apicaltuft |-> "apical_tuft"]

ExcitatoryLocs == {"apicaloblique", "basal2", "basal3", "apicaltuft"}

\* the properties syn_create receives for receptor r
PropsOf(syn) == [e |-> syn.e, tau1 |-> syn.tau1, tau2 |-> syn.tau2]

\* C3: the registry of a built cell holds exactly soma_gabaa, soma_gabab,
\* an ampa and an nmda synapse on each of apical_oblique, basal_2, basal_3
\* and apical_tuft, and one more tuft synapse for L5Pyr only; every key is
\* {location}_{receptor}, every synapse sits at 0.5 of its section; before
\* any wiring call every connection list is empty.
C3_SynapseRegistry ==
    Built =>
        LET fixed == {"soma_gabaa", "soma_gabab"}
                       \cup {l \o "_" \o r : l \in ExcitatoryLocs,
                                              r \in {"ampa", "nmda"}}
            extra == DOMAIN synapses \ fixed
        IN /\ fixed \subseteq DOMAIN synapses
           /\ Cardinality(fixed) = 10
           /\ Cardinality(extra) = IF name = "L5Pyr" THEN 1 ELSE 0
           /\ \A k \in extra : synapses[k].sec = "apical_tuft"
           /\ \A k \in DOMAIN synapses :
                 /\ synapses[k].x = Midpoint
                 /\ \E l \in DOMAIN SynLocSection, r \in Receptors :
                       /\ k = l \o "_" \o r
                       /\ synapses[k].sec = SynLocSection[l]
                       /\ PropsOf(synapses[k]) = get_syn_props[r]
           /\ calls = 0 => \A l \in DOMAIN nc : nc[l] = <<>>

C3_Witness ==
    /\ Built
    /\ calls = 0
    /\ name = "L5Pyr"
    /\ Cardinality(DOMAIN synapses) = 11
    /\ synapses["basal2_nmda"].sec = "basal_2"

\* the synapses on the apical tuft other than the excitatory pair
TuftExtra ==
    {k \in DOMAIN synapses :
        synapses[k].sec = "apical_tuft"
        /\ k \notin {"apicaltuft_ampa", "apicaltuft_nmda"}}

\* C4 as stated: the additional tuft receptor of L5Pyr is the slow
\* inhibitory one (gabab), and L2Pyr has no inhibitory tuft receptor.
C4_TuftSlowInhibitory ==
    Built =>
        /\ name = "L5Pyr" =>
              /\ TuftExtra = {"apicaltuft_gabab"}
              /\ \A k \in TuftExtra : PropsOf(synapses[k]) = get_syn_props["gabab"]
        /\ name = "L2Pyr" => TuftExtra = {}

\* C4 amended: the additional tuft receptor of L5Pyr is the fast inhibitory
\* one (gabaa), registered as apicaltuft_gabaa with the gabaa reversal
\* potential and time constants, which are not those of gabab; L2Pyr has no
\* inhibitory tuft receptor.
C4_TuftFastInhibitory ==
    Built =>
        /\ name = "L5Pyr" =>
              /\ TuftExtra = {"apicaltuft_gabaa"}
              /\ \A k \in TuftExtra :
                    /\ PropsOf(synapses[k]) = get_syn_props["gabaa"]
                    /\ PropsOf(synapses[k]) # get_syn_props["gabab"]
        /\ name = "L2Pyr" => TuftExtra = {}

C4_Witness ==
    /\ Built
    /\ name = "L5Pyr"
    /\ "apicaltuft_gabaa" \in DOMAIN synapses
    /\ synapses["apicaltuft_gabaa"].tau2 = p_all["L5Pyr_gabaa_tau2"]

\* C10: the factor of every section of the tree is 0 for apical_oblique, -1
\* for basal_1, -sqrt(2)/2 for basal_2 and basal_3 and +1 for the soma and
\* the other apical sections; basal factors are negative, no other is.
C10_AxialFactor ==
    AfterSectnames =>
        /\ DOMAIN yscale = {name \o "_" \o sec : sec \in {"soma"} \cup dends}
        /\ \A sec \in {"soma"} \cup dends :
              LET f == yscale[name \o "_" \o sec]
              IN /\ sec = "apical_oblique" => f = 0
                 /\ sec = "basal_1" => f = -1000
                 /\ sec \in {"basal_2", "basal_3"} => f = -707
                 /\ sec \in {"soma", "apical_trunk", "apical_1", "apical_2",
                             "apical_tuft"} => f = 1000
                 /\ sec \in {"basal_1", "basal_2", "basal_3"} <=> f < 0

C10_Witness ==
    /\ Built
    /\ name = "L5Pyr"
    /\ yscale["L5Pyr_basal_2"] = -707
    /\ yscale["L5Pyr_apical_oblique"] = 0
    /\ yscale["L5Pyr_apical_2"] = 1000

-----------------------------------------------------------------------------
(* Properties of the wiring *)

\* the connections the last wiring call appended to a list
Added(l) == SubSeq(nc[l], Len(last.nc[l]) + 1, Len(nc[l]))

\* the last wiring call left every list but l as it was and only appended to l
OnlyAppendedTo(l) ==
    /\ \A m \in DOMAIN nc \ {l} : nc[m] = last.nc[m]
    /\ SubSeq(nc[l], 1, Len(last.nc[l])) = last.nc[l]

\* the last call was parreceive_ext with a drive type of the set types, on a
\* cell whose type has an entry in the drive's parameters
LastExtTargeted(types) ==
    /\ last.op = "parreceive_ext"
    /\ last.type \in types
    /\ celltype \in DOMAIN last.p_ext

\* the connections of a sequence that go to a receptor
OfReceptor(conns, r) == {i \in DOMAIN conns : conns[i].receptor = r}

\* the synapse keys of receptor r at a feed location
SynsAt(loc, r) ==
    IF loc = "proximal"
      THEN {"apicaloblique_" \o r, "basal2_" \o r, "basal3_" \o r}
      ELSE {"apicaltuft_" \o r}

\* C5: a Poisson drive gives a targeted cell one ampa connection at the
\* proximal location with weight index 0 whatever the nmda weight is, and an
\* nmda connection if and only if the nmda weight (index 1) is positive:
\* none when it is 0, exactly one carrying that weight when it is positive.
C5_PoissonNmdaGuard ==
    LastExtTargeted({"extpois"}) =>
        LET e == last.p_ext[celltype]
            new == Added("ncfrom_extpois")
        IN /\ OnlyAppendedTo("ncfrom_extpois")
           /\ Cardinality(OfReceptor(new, "ampa")) = 1
           /\ \A i \in OfReceptor(new, "ampa") :
                 /\ new[i].A_weight = e[1]
                 /\ new[i].feed_loc = "proximal"
                 /\ new[i].syns = SynsAt("proximal", "ampa")
           /\ e[2] = 0 => OfReceptor(new, "nmda") = {}
           /\ e[2] > 0 => Cardinality(OfReceptor(new, "nmda")) = 1
           /\ \A i \in OfReceptor(new, "nmda") :
                 /\ new[i].A_weight = e[2]
                 /\ new[i].feed_loc = "proximal"
                 /\ new[i].syns = SynsAt("proximal", "nmda")
           /\ Len(new) = Cardinality(OfReceptor(new, "ampa"))
                           + Cardinality(OfReceptor(new, "nmda"))

\* two Poisson calls, the first with nmda weight 0 and the last with a
\* positive one: one connection, then two
C5_Witness ==
    /\ LastExtTargeted({"extpois"})
    /\ last.p_ext[celltype][2] > 0
    /\ Len(last.nc["ncfrom_extpois"]) = 1
    /\ Len(nc["ncfrom_extpois"]) = 3
    /\ nc["ncfrom_extpois"][3].receptor = "nmda"

\* C6: a Gaussian drive gives a targeted cell exactly one connection, to the
\* ampa receptor at the proximal location with weight index 0, and no nmda
\* connection whatever the nmda weight is.
C6_GaussAmpaOnly ==
    LastExtTargeted({"extgauss"}) =>
        LET e == last.p_ext[celltype]
            new == Added("ncfrom_extgauss")
        IN /\ OnlyAppendedTo("ncfrom_extgauss")
           /\ Len(new) = 1
           /\ new[1].receptor = "ampa"
           /\ new[1].feed_loc = "proximal"
           /\ new[1].syns = SynsAt("proximal", "ampa")
           /\ new[1].A_weight = e[1]
           /\ \A l \in DOMAIN nc : OfReceptor(Added(l), "nmda") = {}

C6_Witness ==
    /\ LastExtTargeted({"extgauss"})
    /\ last.p_ext[celltype][2] > 0
    /\ Len(Added("ncfrom_extgauss")) = 1

EvokedTypes == {t \in Range(DriveTypes) :
                   StartsWith(t, "evprox") \/ StartsWith(t, "evdist")}

\* C7: an evoked drive connects a targeted cell to the ampa and to the nmda
\* receptor at the location p_ext['loc'], the ampa connection with weight
\* index 0, the nmda connection with weight index 1, both with the delay of
\* index 2, the same source gid and the decay constant
\* p_ext['lamtha_space'].
C7_EvokedBothReceptors ==
    LastExtTargeted(EvokedTypes) =>
        LET e == last.p_ext[celltype]
            new == Added("ncfrom_common")
        IN /\ OnlyAppendedTo("ncfrom_common")
           /\ Len(new) = 2
           /\ {new[1].receptor, new[2].receptor} = {"ampa", "nmda"}
           /\ \A i \in 1..2 :
                 /\ new[i].feed_loc = last.p_ext["loc"]
                 /\ new[i].syns = SynsAt(last.p_ext["loc"], new[i].receptor)
                 /\ new[i].A_weight = IF new[i].receptor = "ampa" THEN e[1] ELSE e[2]
                 /\ new[i].A_delay = e[3]
                 /\ new[i].lamtha = last.p_ext["lamtha_space"]
                 /\ new[i].gid_src = new[1].gid_src
                 /\ new[i].gid_src = gid + gid_dict[last.type][1]

C7_Witness ==
    /\ LastExtTargeted({"evdist1"})
    /\ last.p_ext["loc"] = "distal"
    /\ last.p_ext[celltype][1] # last.p_ext[celltype][2]
    /\ last.p_ext["lamtha"] # last.p_ext["lamtha_space"]
    /\ Len(Added("ncfrom_common")) = 2

\* C8: a drive type that neither starts with 'evprox' or 'evdist' nor is
\* 'extgauss' or 'extpois' raises nothing, prints one diagnostic and leaves
\* every connection list as it was.
C8_UnknownTypeSkipped ==
    (/\ last.op = "parreceive_ext"
     /\ ~StartsWith(last.type, "evprox")
     /\ ~StartsWith(last.type, "evdist")
     /\ last.type \notin {"extgauss", "extpois"})
        => /\ err = ""
           /\ diag = last.diag + 1
           /\ nc = last.nc

C8_Witness ==
    /\ last.op = "parreceive_ext"
    /\ last.type = "extinput"
    /\ celltype \in DOMAIN last.p_ext
    /\ diag = 1
    /\ Len(nc["ncfrom_extpois"]) > 0

\* the calls of the parconnect of the subtype
ParconnectCalls(n) ==
    IF n = "L2Pyr" THEN L2Pyr_parconnect_calls ELSE L5Pyr_parconnect_calls

\* every connection of every list
AllConns == UNION {Range(nc[l]) : l \in DOMAIN nc}

\* C9: the calls of parconnect for the cell's own population, the ampa and
\* the nmda one, exclude autapses, and the calls for other populations leave
\* the default; after parconnect no connection of the cell has the cell's
\* own gid as source, while every other gid of its population is wired to
\* each of the three proximal synapses of both receptors.
C9_NoAutapse ==
    /\ \A n \in CellNames :
          LET cs == ParconnectCalls(n)
              own == {i \in DOMAIN cs : cs[i].type_src = CellTypeOf(n)}
          IN /\ {cs[i].receptor : i \in own} = {"ampa", "nmda"}
             /\ \A i \in own : cs[i].autapses = "False"
             /\ \A i \in DOMAIN cs \ own : cs[i].autapses = NoArg
    /\ (last.op = "parconnect" /\ err = "") =>
          /\ \A c \in AllConns : c.gid_src # gid
          /\ \A src \in Range(gid_dict[celltype]) \ {gid} :
                \A r \in {"ampa", "nmda"} :
                   \A k \in SynsAt("proximal", r) :
                      \E c \in AllConns :
                         c.gid_src = src /\ c.syn = k /\ c.receptor = r

C9_Witness ==
    /\ last.op = "parconnect"
    /\ err = ""
    /\ name = "L2Pyr"
    /\ gid \in Range(gid_dict["L2_pyramidal"])
    /\ \E c \in Range(nc["ncfrom_L2Pyr"]) : c.gid_src # gid
    /\ Len(nc["ncfrom_L2Basket"]) = 2

-----------------------------------------------------------------------------
(* Geometry, biophysics and build order *)

\* C11: once geom has run, every compartment, the soma included, carries
\* the length, diameter, axial resistivity and capacitance the resolved
\* parameters supply for it; no hardcoded value of geom remains where the
\* parameters supply another one.
C11_GeometryFromParams ==
    AfterGeom =>
        /\ \A d \in dends :
              /\ geo[d].L = get_dend_props[d].L
              /\ geo[d].diam = get_dend_props[d].diam
              /\ geo[d].Ra = get_dend_props[d].Ra
              /\ geo[d].cm = get_dend_props[d].cm
        /\ geo["soma"].L = get_soma_props.L
        /\ geo["soma"].diam = get_soma_props.diam
        /\ geo["soma"].Ra = get_soma_props.Ra
        /\ geo["soma"].cm = get_soma_props.cm

\* the sections whose whole length lies between the 0 end of the soma and
\* the start of a dendrite of the L5 tree
PathFromSoma ==
    [apical_trunk   |-> <<"soma">>,
     apical_1       |-> <<"soma", "apical_trunk">>,
     apical_2       |-> <<"soma", "apical_trunk", "apical_1">>,
     apical_tuft    |-> <<"soma", "apical_trunk", "apical_1", "apical_2">>,
     apical_oblique |-> <<"soma", "apical_trunk">>,
     basal_1        |-> <<>>,
     basal_2        |-> <<"basal_1">>,
     basal_3        |-> <<"basal_1">>]

RECURSIVE SumL(_)
SumL(path) == IF path = <<>> THEN 0 ELSE geo[Head(path)].L + SumL(Tail(path))

\* path distance of the centre of segment i of dendrite k from the soma,
\* times 2 * SegUnit * nseg (no division)
SegDistTimesNseg(k, i) ==
    geo[k].nseg * 2 * SegUnit * SumL(PathFromSoma[k])
        + geo[k].L * (2 * i - 1) * SegUnit

Segments == {s \in dends \X (1..7) : s[2] <= geo[s[1]].nseg}

\* density a exceeds density b
Denser(a, b) == a.base = b.base /\ a.base > 0 /\ a.arg > b.arg

\* C12: the h-current density of every segment of every dendrite of a
\* layer-5 cell is 1e-6 * exp(3e-3 * d), d the path distance of the segment
\* from the soma; of two segments the one farther from the soma has the
\* strictly larger density.  Stated of the state in which the densities
\* have just been assigned; no later step changes them or the geometry.
C12_DensityProfile ==
    (pc = StepAfter("biophys") /\ gbar_ar # <<>>) =>
        /\ DOMAIN gbar_ar = dends
        /\ \A s \in Segments :
              /\ s[2] \in DOMAIN gbar_ar[s[1]]
              /\ gbar_ar[s[1]][s[2]].base = 1
              /\ geo[s[1]].nseg * gbar_ar[s[1]][s[2]].arg
                     = 3 * SegDistTimesNseg(s[1], s[2])
        /\ \A s, t \in Segments :
              SegDistTimesNseg(s[1], s[2]) * geo[t[1]].nseg
                  < SegDistTimesNseg(t[1], t[2]) * geo[s[1]].nseg
              => Denser(gbar_ar[t[1]][t[2]], gbar_ar[s[1]][s[2]])

C12_Witness ==
    /\ pc = StepAfter("biophys")
    /\ name = "L5Pyr"
    /\ geo["apical_tuft"].nseg >= 3
    /\ Denser(gbar_ar["apical_tuft"][2], gbar_ar["apical_tuft"][1])
    /\ Denser(gbar_ar["apical_tuft"][1], gbar_ar["apical_trunk"][1])
    /\ Denser(gbar_ar["apical_trunk"][1], gbar_ar["basal_1"][1])

DendsCreated == dends # {}
TreeConnected == dends # {} /\ \A d \in dends : parent[d] # NoParent
GeometrySet ==
    /\ dends # {}
    /\ \A d \in dends :
          /\ geo[d].L = p_all[name \o "_" \o ParamStem(d) \o "_L"]
          /\ geo[d].diam = p_all[name \o "_" \o ParamStem(d) \o "_diam"]
          /\ geo[d].nseg = NsegRule(geo[d].L, 1)
BiophysicsSet == mechs # <<>>
SynapsesCreated == synapses # <<>>

\* C13: the cell is built in a fixed order: dendrites are created from the
\* resolved parameters, then the tree is connected, then geometry and
\* segment counts are set, then the biophysics, then the synapses; the
\* distance-dependent density is evaluated when every dendrite is connected
\* and has its final length and segment count, once for each segment.
C13_BuildOrder ==
    LET connected == TreeConnected
        geometry == GeometrySet
    IN /\ DendsCreated => dends = DendKeys(name)
       /\ geometry => connected
       /\ BiophysicsSet => geometry
       /\ SynapsesCreated => BiophysicsSet
       /\ Built => SynapsesCreated
       /\ gbar_ar # <<>> =>
             /\ connected
             /\ geometry
             /\ \A k \in dends :
                   /\ DOMAIN gbar_ar[k] = 1..geo[k].nseg
                   /\ \A i \in 1..(geo[k].nseg - 1) :
                         gbar_ar[k][i].arg < gbar_ar[k][i + 1].arg

C13_Witness ==
    /\ Built
    /\ name = "L5Pyr"
    /\ \E k \in dends : geo[k].nseg = 7 /\ Len(gbar_ar[k]) = 7
    /\ \E k \in dends : geo[k].nseg = 1 /\ Len(gbar_ar[k]) = 1

\* C14: when a dendrite that _synapse_create places a synapse on does not
\* exist, the registration fails with MissingCompartmentError and with no
\* other kind of error, and no synapse is registered on an absent compartment.
C14_MissingCompartmentError ==
    pc \in {"built", "raised"} =>
        /\ (\E i \in DOMAIN SynapseTable(name) :
               SynapseTable(name)[i][2] \notin {"soma"} \cup dends)
           => err = "MissingCompartmentError"
        /\ err \in {"", "MissingCompartmentError"}
        /\ \A key \in DOMAIN synapses :
               synapses[key].sec \in {"soma"} \cup dends

-----------------------------------------------------------------------------
(* Properties of the external drives, continued *)

ExtLists == {"ncfrom_common", "ncfrom_extgauss", "ncfrom_extpois"}

PyrGids == Range(gid_dict["L2_pyramidal"]) \cup Range(gid_dict["L5Pyr"])

\* the connections parreceive_ext of drive type t makes for the cell with gid g
DriveConns(t, g, p_ext) ==
    CASE ExtBranchOf(t) = "evoked" -> EvokedBranch(t, g, p_ext)
      [] ExtBranchOf(t) = "extgauss" -> GaussBranch(t, g, p_ext)
      [] ExtBranchOf(t) = "extpois" -> PoisBranch(t, g, p_ext)
      [] OTHER -> <<>>

\* C15: the source of every connection parreceive_ext makes has the gid of
\* the target cell plus the first gid of the drive's range, and the drive's
\* position at the target's gid; so the same drive gives two distinct cells
\* distinct sources, and the source gid less the first gid of the range is
\* the target's gid.
C15_DriveSource ==
    (last.op = "parreceive_ext" /\ err = "") =>
        LET first == gid_dict[last.type][1]
            new == [l \in ExtLists |-> Added(l)]
        IN /\ \A l \in ExtLists : \A i \in DOMAIN new[l] :
                 /\ new[l][i].gid_src = gid + first
                 /\ new[l][i].gid_src \in Range(gid_dict[last.type])
                 /\ new[l][i].pos_src = pos_src_of(last.type, gid)
                 /\ new[l][i].gid_src - first = gid
           /\ \A g2 \in PyrGids \ {gid} :
                 LET other == DriveConns(last.type, g2, last.p_ext)
                 IN \A j \in DOMAIN other :
                       /\ other[j].gid_src - first = g2
                       /\ \A l \in ExtLists : \A i \in DOMAIN new[l] :
                             new[l][i].gid_src # other[j].gid_src

C15_Witness ==
    /\ last.op = "parreceive_ext"
    /\ last.type = "evdist1"
    /\ gid > 0
    /\ Len(Added("ncfrom_common")) = 2
    /\ Added("ncfrom_common")[1].gid_src = gid + gid_dict["evdist1"][1]
    /\ Added("ncfrom_common")[1].gid_src # gid_dict["evdist1"][1]

\* C16: a drive call (parreceive_ext, parreceive) that fails part-way
\* leaves every connection list of the cell as it was before the call.
C16_AllOrNothing ==
    (last.op \in {"parreceive_ext", "parreceive"} /\ err # "") =>
        nc = last.nc

\* the last call repeated the call before it
Repeated == last.op \in {"parreceive_ext", "parreceive"} /\ "prev_nc" \in DOMAIN last

\* the connections the run before the last one appended to list l
AddedBefore(l) == SubSeq(last.nc[l], Len(last.prev_nc[l]) + 1, Len(last.nc[l]))

CommonIndex(g) == CHOOSE i \in DOMAIN gid_dict["common"] : gid_dict["common"][i] = g

\* C18: parreceive makes a connection for a common source and a receptor
\* only if the source's parameters hold the entry '<cell name>_<receptor>',
\* and the connection carries the weight and the delay of that entry.
C18_OwnEntryOnly ==
    last.op = "parreceive" =>
        \A j \in DOMAIN Added("ncfrom_common") :
            LET c == Added("ncfrom_common")[j]
                p_src == last.p_ext[CommonIndex(c.gid_src)]
                key == name \o "_" \o c.receptor
            IN /\ key \in DOMAIN p_src
               /\ c.A_weight = p_src[key][1]
               /\ c.A_delay = p_src[key][2]

\* C19: on a built cell the registry holds the synapse
\* '<location>_<receptor>' for every location name of the proximal and of
\* the distal list and for both excitatory receptors, so the synapses of
\* every drive connection exist; the two lists share no location name.
C19_FeedLocationsResolve ==
    Built =>
        /\ DOMAIN sect_loc = {"proximal", "distal"}
        /\ \A loc \in DOMAIN sect_loc : \A i \in DOMAIN sect_loc[loc] :
              \A r \in {"ampa", "nmda"} :
                  (sect_loc[loc][i] \o "_" \o r) \in DOMAIN synapses
        /\ Range(sect_loc["proximal"]) \cap Range(sect_loc["distal"]) = {}
        /\ \A l \in ExtLists : \A i \in DOMAIN nc[l] :
              /\ nc[l][i].syns # {}
              /\ nc[l][i].syns \subseteq DOMAIN synapses

C19_Witness ==
    /\ Built
    /\ \E i \in DOMAIN nc["ncfrom_common"] :
          /\ nc["ncfrom_common"][i].feed_loc = "distal"
          /\ nc["ncfrom_common"][i].syns = {"apicaltuft_nmda"}
    /\ \E i \in DOMAIN nc["ncfrom_extpois"] :
          nc["ncfrom_extpois"][i].syns
              = {"apicaloblique_ampa", "basal2_ampa", "basal3_ampa"}
    /\ {"apicaltuft_nmda", "apicaloblique_ampa", "basal2_ampa", "basal3_ampa"}
           \subseteq DOMAIN synapses

====
